---- MODULE Spec2Model ----
(***************************************************************************)
(* Model of the ChronoEffector orchestrator: the agent registry            *)
(* (chronoeffector_framework.AgentRegistry), the execution queue, the      *)
(* history log and the polling loop (orchestrator.ChronoOrchestrator);     *)
(* of the verification suite (agent_verifier.AgentVerifier); and of the    *)
(* staked agents and the validator panel                                   *)
(* (chronoeffector_framework.ChronoeffectorAI).                            *)
(***************************************************************************)
EXTENDS Integers, Sequences, FiniteSets, TLC

(* ------------------------------ bounds --------------------------------- *)
\* the clock runs from 0 to MaxTime, in units of 1/SubSec second
MaxTime == 1
\* a caller asks for a new execution (schedule_execution, execute_agent) only
\* while fewer than MaxCalls records are pending or logged
MaxCalls == 2
\* a panel has up to MaxPanel validators
MaxPanel == 3
\* execute_task is asked to tally only while fewer than MaxTasks tallies were made
MaxTasks == 2
\* the verification suite is given up to MaxTests test contexts
MaxTests == 2

(* clock units per second: datetime.now() is finer than int(time.time()) *)
SubSec == 2

(* ---------------------------- agent objects ---------------------------- *)
\* The agents are the callers' objects.  Each object has a fixed class:
\*   1  WeatherAgent("a", api_key="k")   validate() True, execute needs 'location'
\*   2  ChronoAgent("a")                 validate() True, execute always raises
\*   3  WeatherAgent("b", api_key="")    validate() False
\*   4  an agent "b" whose validate() raises, execute returns
\*   5  an object with agent_id "b" that is not a ChronoAgent
AgentObjects == 1 .. 5
AgentIds == {"a", "b"}
NoAgent == 0

agent_id(o) == IF o \in {1, 2} THEN "a" ELSE "b"

IsChronoAgent(o) == o # 5

\* what agent.validate() does: "true", "false" or "raises"
validate(o) ==
    CASE o \in {1, 2} -> "true"
      [] o = 3 -> "false"
      [] OTHER -> "raises"

\* contexts are mappings; only their key set matters to the sample agents
Contexts == {{}, {"location"}}
NoContext == {"<None>"}

\* what agent.execute(context) does: "returns" or "raises"
execute(o, context) ==
    CASE o \in {1, 3} -> IF "location" \in context THEN "returns" ELSE "raises"
      [] o = 2 -> "raises"
      [] OTHER -> "returns"

(* ------------------------------ values --------------------------------- *)
Absent == "absent"
NoTime == -1
NoResults == [is_valid_instance |-> FALSE, has_execute_method |-> FALSE,
              self_validation |-> FALSE, passed |-> FALSE, present |-> FALSE]
NoResult == <<Absent, Absent>>
NoExecutionId == <<NoTime, Absent>>

\* str(e) of the exceptions the engine sees
MsgNotFound == "No agent with ID found"
MsgFailedVerification == "Agent failed verification"
MsgExecuteRaised == "Context must include 'location'"
MsgValidateRaised == "validate raised"

\* the verification suite has no results for the agent
NoSuite == [present |-> FALSE]

(* ------------------- staked agents and validator panel ----------------- *)
AiAgentIds == {"s1", "s2"}
WalletIds == {"w1", "w2"}
StakeAmounts == {50, 150}
Inputs == {"I love Solana!", "good"}
TaskFuncs == {"sentiment_task"}

\* SolanaSmartContract.rules["min_stake"]
min_stake == 100
\* staked_funds.pop(wallet_id, 0): no key
NoStake == 0
NoAiAgent == [present |-> FALSE, wallet_id |-> Absent, task_func |-> Absent,
              active |-> FALSE]

MsgNotActive == "Agent is not active. Stake required."
MsgAgentNotFound == "Agent not found."
MsgRejected == "Output rejected."

\* f"Sentiment analysis result for '{input_text}': Positive"
sentiment_task(input_text) ==
    CASE input_text = "I love Solana!"
           -> "Sentiment analysis result for 'I love Solana!': Positive"
      [] input_text = "good"
           -> "Sentiment analysis result for 'good': Positive"

\* int(hashlib.sha256(agent_output.encode()).hexdigest()[:4], 16)
output_hash(agent_output) ==
    CASE agent_output = "Sentiment analysis result for 'I love Solana!': Positive" -> 58186
      [] agent_output = "Sentiment analysis result for 'good': Positive" -> 25611
      [] agent_output = MsgNotActive -> 23239

\* the panel of the constructor: Validator(f"val_{i}") for i in range(3)
validators == <<"val_0", "val_1", "val_2">>

\* expected_quality=0.7, in tenths
expected_quality == 7

\* output_hash[:4]: the number of hex digits of the prefix
HashDigits == 4
\* int(output_hash[:4], 16): every value of the prefix
HashPrefixes == 0 .. (16 ^ HashDigits - 1)
\* the divisor of quality_score
ScoreDivisor == 65535
\* required qualities, in tenths: 0.0, 0.5, 0.7 and 1.0
Thresholds == {0, 5, 7, 10}

VARIABLES
    agents,                 \* registry.agents: agent id -> object (NoAgent: no key)
    verification_results,   \* registry.verification_results: agent id -> results
    last_execution,         \* agent.last_execution of every object: the position in
                            \* the history of the record it refers to, 0 for None
    execution_queue,        \* orchestrator.execution_queue
    execution_history,      \* orchestrator.execution_history
    running,                \* orchestrator.running
    now,                    \* the wall clock
    tickPc,                 \* position of process_queue: "idle", "iter", "exec";
                            \* with a second thread also "assign"
    tickOwner,              \* who called process_queue: "call" or "loop"
    current_time,           \* process_queue's local current_time
    pending_executions,     \* process_queue's local pending_executions
    idx,                    \* position of process_queue's for loop in the queue
    loopPc,                 \* position of start(): "off", "check" (entering the
                            \* loop), "tick" (in process_queue), "sleep"
    lastCall,               \* the call that returned in the last step and how:
                            \* NoCall after a step in which no call returned
    verifier_results,       \* AgentVerifier.verification_results: agent id -> the
                            \* suite's results (the verifier's registry is
                            \* agents and verification_results)
    ai_agents,              \* ChronoeffectorAI.agents: agent id -> AIAgent
    staked_funds,           \* SolanaSmartContract.staked_funds: wallet id -> amount
    votes                   \* the votes of the validators in the last tally

vars == <<agents, verification_results, last_execution, execution_queue,
          execution_history, running, now, tickPc, tickOwner,
          current_time, pending_executions, idx, loopPc, lastCall,
          verifier_results, ai_agents, staked_funds, votes>>

registryVars == <<agents, verification_results>>
tickVars == <<tickPc, tickOwner, current_time, pending_executions, idx>>
engineVars == <<last_execution, execution_queue, execution_history, running, now,
                tickVars, loopPc>>
verifierVars == <<verifier_results>>
frameworkVars == <<ai_agents, staked_funds, votes>>

Call(op, outcome, invoked) == [op |-> op, outcome |-> outcome, invoked |-> invoked]
NoCall == Call("none", "ok", FALSE)

Init ==
    /\ agents = [i \in AgentIds |-> NoAgent]
    /\ verification_results = [i \in AgentIds |-> NoResults]
    /\ last_execution = [o \in AgentObjects |-> 0]
    /\ execution_queue = <<>>
    /\ execution_history = <<>>
    /\ running = FALSE
    /\ now = 0
    /\ tickPc = "idle"
    /\ tickOwner = "call"
    /\ current_time = NoTime
    /\ pending_executions = <<>>
    /\ idx = 0
    /\ loopPc = "off"
    /\ lastCall = NoCall
    /\ verifier_results = [i \in AgentIds |-> NoSuite]
    /\ ai_agents = [i \in AiAgentIds |-> NoAiAgent]
    /\ staked_funds = [w \in WalletIds |-> NoStake]
    /\ votes = <<>>

(* ------------------------------ registry ------------------------------- *)
\* verify_agent that passes an agent only if its stored result did not pass
verify_agent_toggling(ags, vres, id) ==
    IF ags[id] = NoAgent
    THEN [exc |-> "KeyError", msg |-> MsgNotFound, results |-> NoResults, stored |-> vres]
    ELSE IF validate(ags[id]) = "raises"
    THEN [exc |-> "Exception", msg |-> MsgValidateRaised, results |-> NoResults,
          stored |-> vres]
    ELSE LET inst == IsChronoAgent(ags[id])
             val == validate(ags[id]) = "true"
             results == [is_valid_instance |-> inst, has_execute_method |-> TRUE,
                         self_validation |-> val,
                         passed |-> inst /\ val /\ ~vres[id].passed,
                         present |-> TRUE]
         IN [exc |-> "none", msg |-> Absent, results |-> results,
             stored |-> [vres EXCEPT ![id] = results]]

\* AgentRegistry.verify_agent over the agent map ags and the result map vres
verify_agent(ags, vres, id) ==
    IF ags[id] = NoAgent
    THEN [exc |-> "KeyError", msg |-> MsgNotFound, results |-> NoResults, stored |-> vres]
    ELSE IF validate(ags[id]) = "raises"
    THEN [exc |-> "Exception", msg |-> MsgValidateRaised, results |-> NoResults,
          stored |-> vres]
    ELSE LET inst == IsChronoAgent(ags[id])
             val == validate(ags[id]) = "true"
             results == [is_valid_instance |-> inst, has_execute_method |-> TRUE,
                         self_validation |-> val, passed |-> inst /\ val,
                         present |-> TRUE]
         IN [exc |-> "none", msg |-> Absent, results |-> results,
             stored |-> [vres EXCEPT ![id] = results]]

\* register without the check for an agent id that is already registered
register_overwrite(o) ==
    /\ tickPc = "idle"
    /\ IF ~IsChronoAgent(o)
       THEN /\ lastCall' = Call("register", "TypeError", FALSE)
            /\ UNCHANGED registryVars
       ELSE LET stored == [agents EXCEPT ![agent_id(o)] = o]
                v == verify_agent(stored, verification_results, agent_id(o))
            IN /\ agents' = stored
               /\ verification_results' = v.stored
               /\ lastCall' = Call("register", IF v.exc = "none" THEN "ok" ELSE v.exc, FALSE)
    /\ UNCHANGED <<last_execution, execution_queue, execution_history, running, now,
                   tickVars, loopPc>>
    /\ UNCHANGED <<verifierVars, frameworkVars>>

\* AgentRegistry.register, called through ChronoOrchestrator.register_agent
register(o) ==
    /\ tickPc = "idle"
    /\ IF ~IsChronoAgent(o)
       THEN /\ lastCall' = Call("register", "TypeError", FALSE)
            /\ UNCHANGED registryVars
       ELSE IF agents[agent_id(o)] # NoAgent
       THEN /\ lastCall' = Call("register", "ValueError", FALSE)
            /\ UNCHANGED registryVars
       ELSE LET stored == [agents EXCEPT ![agent_id(o)] = o]
                v == verify_agent(stored, verification_results, agent_id(o))
            IN /\ agents' = stored
               /\ verification_results' = v.stored
               /\ lastCall' = Call("register", IF v.exc = "none" THEN "ok" ELSE v.exc, FALSE)
    /\ UNCHANGED <<last_execution, execution_queue, execution_history, running, now,
                   tickVars, loopPc>>
    /\ UNCHANGED <<verifierVars, frameworkVars>>

\* the /unload_agent endpoint
unload_agent(id) ==
    /\ tickPc = "idle"
    /\ IF agents[id] = NoAgent
       THEN /\ lastCall' = Call("unload_agent", "HTTP404", FALSE)
            /\ UNCHANGED registryVars
       ELSE /\ agents' = [agents EXCEPT ![id] = NoAgent]
            /\ verification_results' = [verification_results EXCEPT ![id] = NoResults]
            /\ lastCall' = Call("unload_agent", "ok", FALSE)
    /\ UNCHANGED <<last_execution, execution_queue, execution_history, running, now,
                   tickVars, loopPc>>
    /\ UNCHANGED <<verifierVars, frameworkVars>>

(* ------------------------------- engine -------------------------------- *)
Terminal == {"completed", "failed"}
IsQueueEntry(r) == r.execution_id # NoExecutionId

\* `context or {}`
OrEmpty(context) == IF context = NoContext THEN {} ELSE context

\* `execution_time or datetime.now()`: a datetime is never falsy
OrNow(execution_time) == IF execution_time = NoTime THEN now ELSE execution_time

\* f"exec_{int(time.time())}_{agent_id}"
execution_id(id) == <<now \div SubSec, id>>

Records == Len(execution_queue) + Len(execution_history)

NewEntry(id, context, execution_time) ==
    [execution_id |-> execution_id(id),
     agent_id |-> id,
     context |-> OrEmpty(context),
     scheduled_time |-> OrNow(execution_time),
     status |-> "scheduled",
     result |-> NoResult,
     error |-> Absent,
     execution_time |-> NoTime,
     timestamp |-> NoTime,
     completed_time |-> NoTime]

\* schedule_execution without the check that the agent is registered
schedule_execution_unchecked(id, context, execution_time) ==
    /\ tickPc = "idle"
    /\ Records < MaxCalls
    /\ execution_queue' = Append(execution_queue, NewEntry(id, context, execution_time))
    /\ lastCall' = Call("schedule_execution", "ok", FALSE)
    /\ UNCHANGED <<registryVars, last_execution, execution_history, running, now,
                   tickVars, loopPc>>
    /\ UNCHANGED <<verifierVars, frameworkVars>>

\* ChronoOrchestrator.schedule_execution
schedule_execution(id, context, execution_time) ==
    /\ tickPc = "idle"
    /\ IF agents[id] = NoAgent
       THEN /\ lastCall' = Call("schedule_execution", "ValueError", FALSE)
            /\ UNCHANGED execution_queue
       ELSE /\ Records < MaxCalls
            /\ execution_queue' = Append(execution_queue,
                                         NewEntry(id, context, execution_time))
            /\ lastCall' = Call("schedule_execution", "ok", FALSE)
    /\ UNCHANGED <<registryVars, last_execution, execution_history, running, now,
                   tickVars, loopPc>>
    /\ UNCHANGED <<verifierVars, frameworkVars>>

\* execute_agent without the check of verification["passed"]
execute_agent_unverified(id, context) ==
    LET unchanged == [stored |-> verification_results, history |-> execution_history,
                      last |-> last_execution, invoked |-> FALSE, result |-> NoResult]
        v == verify_agent(agents, verification_results, id)
    IN IF agents[id] = NoAgent
       THEN [exc |-> "KeyError", msg |-> MsgNotFound] @@ unchanged
       ELSE IF v.exc # "none"
       THEN [exc |-> v.exc, msg |-> v.msg] @@ unchanged
       ELSE LET agent == agents[id]
                execution_context == OrEmpty(context)
                start_time == now
                returns == execute(agent, execution_context) = "returns"
                result == IF returns THEN <<"value", "ok">>
                                     ELSE <<"error", MsgExecuteRaised>>
                execution_record ==
                    [execution_id |-> NoExecutionId,
                     agent_id |-> id,
                     context |-> execution_context,
                     scheduled_time |-> NoTime,
                     status |-> IF returns THEN "completed" ELSE "failed",
                     result |-> result,
                     error |-> Absent,
                     execution_time |-> now - start_time,
                     timestamp |-> now,
                     completed_time |-> NoTime]
            IN [exc |-> "none", msg |-> Absent, stored |-> v.stored,
                history |-> Append(execution_history, execution_record),
                last |-> [last_execution EXCEPT ![agent] = Len(execution_history) + 1],
                invoked |-> TRUE, result |-> result]

\* execute_agent without the try/except around agent.execute
execute_agent_propagate(id, context) ==
    LET unchanged == [stored |-> verification_results, history |-> execution_history,
                      last |-> last_execution, invoked |-> FALSE, result |-> NoResult]
        v == verify_agent(agents, verification_results, id)
    IN IF agents[id] = NoAgent
       THEN [exc |-> "KeyError", msg |-> MsgNotFound] @@ unchanged
       ELSE IF v.exc # "none"
       THEN [exc |-> v.exc, msg |-> v.msg] @@ unchanged
       ELSE IF ~v.results.passed
       THEN [exc |-> "RuntimeError", msg |-> MsgFailedVerification, stored |-> v.stored]
            @@ unchanged
       ELSE IF execute(agents[id], OrEmpty(context)) = "raises"
       THEN [exc |-> "Exception", msg |-> MsgExecuteRaised, stored |-> v.stored,
             invoked |-> TRUE] @@ unchanged
       ELSE LET agent == agents[id]
                execution_context == OrEmpty(context)
                start_time == now
                returns == execute(agent, execution_context) = "returns"
                result == IF returns THEN <<"value", "ok">>
                                     ELSE <<"error", MsgExecuteRaised>>
                execution_record ==
                    [execution_id |-> NoExecutionId,
                     agent_id |-> id,
                     context |-> execution_context,
                     scheduled_time |-> NoTime,
                     status |-> IF returns THEN "completed" ELSE "failed",
                     result |-> result,
                     error |-> Absent,
                     execution_time |-> now - start_time,
                     timestamp |-> now,
                     completed_time |-> NoTime]
            IN [exc |-> "none", msg |-> Absent, stored |-> v.stored,
                history |-> Append(execution_history, execution_record),
                last |-> [last_execution EXCEPT ![agent] = Len(execution_history) + 1],
                invoked |-> TRUE, result |-> result]

\* The body of ChronoOrchestrator.execute_agent: the exception it raises
\* ("none": it returns result) and the state it leaves.  An agent's execute()
\* takes less than one unit of the clock.
execute_agent(id, context) ==
    LET unchanged == [stored |-> verification_results, history |-> execution_history,
                      last |-> last_execution, invoked |-> FALSE, result |-> NoResult]
        v == verify_agent(agents, verification_results, id)
    IN IF agents[id] = NoAgent
       THEN [exc |-> "KeyError", msg |-> MsgNotFound] @@ unchanged
       ELSE IF v.exc # "none"
       THEN [exc |-> v.exc, msg |-> v.msg] @@ unchanged
       ELSE IF ~v.results.passed
       THEN [exc |-> "RuntimeError", msg |-> MsgFailedVerification, stored |-> v.stored]
            @@ unchanged
       ELSE LET agent == agents[id]
                execution_context == OrEmpty(context)
                start_time == now
                returns == execute(agent, execution_context) = "returns"
                result == IF returns THEN <<"value", "ok">>
                                     ELSE <<"error", MsgExecuteRaised>>
                execution_record ==
                    [execution_id |-> NoExecutionId,
                     agent_id |-> id,
                     context |-> execution_context,
                     scheduled_time |-> NoTime,
                     status |-> IF returns THEN "completed" ELSE "failed",
                     result |-> result,
                     error |-> Absent,
                     execution_time |-> now - start_time,
                     timestamp |-> now,
                     completed_time |-> NoTime]
            IN [exc |-> "none", msg |-> Absent, stored |-> v.stored,
                history |-> Append(execution_history, execution_record),
                last |-> [last_execution EXCEPT ![agent] = Len(execution_history) + 1],
                invoked |-> TRUE, result |-> result]

\* a direct call of ChronoOrchestrator.execute_agent (the /execute_task endpoint)
execute_agent_now(id, context) ==
    /\ tickPc = "idle"
    /\ Records < MaxCalls
    /\ LET r == execute_agent(id, context)
       IN /\ verification_results' = r.stored
          /\ execution_history' = r.history
          /\ last_execution' = r.last
          /\ lastCall' = Call("execute_agent", IF r.exc = "none" THEN "ok" ELSE r.exc,
                              r.invoked)
    /\ UNCHANGED <<agents, execution_queue, running, now, tickVars, loopPc>>
    /\ UNCHANGED <<verifierVars, frameworkVars>>

(* ---------------------------- process_queue ---------------------------- *)
\* process_queue up to the for loop: current_time and pending_executions
BeginTick(owner) ==
    /\ tickPc' = "iter"
    /\ tickOwner' = owner
    /\ current_time' = now
    /\ pending_executions' = <<>>
    /\ idx' = 1

\* a direct call of ChronoOrchestrator.process_queue
process_queue ==
    /\ tickPc = "idle"
    /\ loopPc = "off"
    /\ BeginTick("call")
    /\ lastCall' = NoCall
    /\ UNCHANGED <<registryVars, last_execution, execution_queue, execution_history,
                   running, now, loopPc>>
    /\ UNCHANGED <<verifierVars, frameworkVars>>

\* tick_iter with the comparison of scheduled_time reversed
tick_iter_reversed ==
    /\ tickPc = "iter"
    /\ idx <= Len(execution_queue)
    /\ LET execution == execution_queue[idx]
       IN IF execution.scheduled_time > current_time
          THEN /\ execution_queue' = [execution_queue EXCEPT ![idx].status = "running"]
               /\ tickPc' = "exec"
               /\ UNCHANGED <<pending_executions, idx>>
          ELSE /\ pending_executions' = Append(pending_executions, execution)
               /\ idx' = idx + 1
               /\ UNCHANGED <<execution_queue, tickPc>>
    /\ lastCall' = NoCall
    /\ UNCHANGED <<registryVars, last_execution, execution_history, running, now,
                   tickOwner, current_time, loopPc>>
    /\ UNCHANGED <<verifierVars, frameworkVars>>

\* tick_iter that keeps an entry that is not due at the head of the pending list
tick_iter_prepend ==
    /\ tickPc = "iter"
    /\ idx <= Len(execution_queue)
    /\ LET execution == execution_queue[idx]
       IN IF execution.scheduled_time <= current_time
          THEN /\ execution_queue' = [execution_queue EXCEPT ![idx].status = "running"]
               /\ tickPc' = "exec"
               /\ UNCHANGED <<pending_executions, idx>>
          ELSE /\ pending_executions' = <<execution>> \o pending_executions
               /\ idx' = idx + 1
               /\ UNCHANGED <<execution_queue, tickPc>>
    /\ lastCall' = NoCall
    /\ UNCHANGED <<registryVars, last_execution, execution_history, running, now,
                   tickOwner, current_time, loopPc>>
    /\ UNCHANGED <<verifierVars, frameworkVars>>

\* one turn of the for loop up to the call of execute_agent: an entry that is
\* not due is kept, a due entry is set to "running"
tick_iter ==
    /\ tickPc = "iter"
    /\ idx <= Len(execution_queue)
    /\ LET execution == execution_queue[idx]
       IN IF execution.scheduled_time <= current_time
          THEN /\ execution_queue' = [execution_queue EXCEPT ![idx].status = "running"]
               /\ tickPc' = "exec"
               /\ UNCHANGED <<pending_executions, idx>>
          ELSE /\ pending_executions' = Append(pending_executions, execution)
               /\ idx' = idx + 1
               /\ UNCHANGED <<execution_queue, tickPc>>
    /\ lastCall' = NoCall
    /\ UNCHANGED <<registryVars, last_execution, execution_history, running, now,
                   tickOwner, current_time, loopPc>>
    /\ UNCHANGED <<verifierVars, frameworkVars>>

\* tick_exec that puts the finished entry at the head of the history
tick_exec_front ==
    /\ tickPc = "exec"
    /\ LET execution == execution_queue[idx]
           r == execute_agent(execution.agent_id, execution.context)
           done == IF r.exc = "none"
                   THEN [execution EXCEPT !.status = "completed",
                                          !.result = r.result,
                                          !.completed_time = now]
                   ELSE [execution EXCEPT !.status = "failed", !.error = r.msg]
       IN /\ verification_results' = r.stored
          /\ last_execution' = r.last
          /\ execution_queue' = [execution_queue EXCEPT ![idx] = done]
          /\ execution_history' = <<done>> \o r.history
    /\ tickPc' = "iter"
    /\ idx' = idx + 1
    /\ lastCall' = NoCall
    /\ UNCHANGED <<agents, running, now, tickOwner, current_time, pending_executions,
                   loopPc>>
    /\ UNCHANGED <<verifierVars, frameworkVars>>

\* tick_exec that also keeps the finished entry pending
tick_exec_requeue ==
    /\ tickPc = "exec"
    /\ LET execution == execution_queue[idx]
           r == execute_agent(execution.agent_id, execution.context)
           done == IF r.exc = "none"
                   THEN [execution EXCEPT !.status = "completed",
                                          !.result = r.result,
                                          !.completed_time = now]
                   ELSE [execution EXCEPT !.status = "failed", !.error = r.msg]
       IN /\ verification_results' = r.stored
          /\ last_execution' = r.last
          /\ execution_queue' = [execution_queue EXCEPT ![idx] = done]
          /\ execution_history' = Append(r.history, done)
    /\ tickPc' = "iter"
    /\ idx' = idx + 1
    /\ pending_executions' = Append(pending_executions, execution_queue'[idx])
    /\ lastCall' = NoCall
    /\ UNCHANGED <<agents, running, now, tickOwner, current_time, loopPc>>
    /\ UNCHANGED <<verifierVars, frameworkVars>>

\* tick_exec that schedules again an entry whose execute_agent raised
tick_exec_retry ==
    /\ tickPc = "exec"
    /\ LET execution == execution_queue[idx]
           r == execute_agent(execution.agent_id, execution.context)
           done == IF r.exc = "none"
                   THEN [execution EXCEPT !.status = "completed",
                                          !.result = r.result,
                                          !.completed_time = now]
                   ELSE [execution EXCEPT !.status = "scheduled", !.error = r.msg]
       IN /\ verification_results' = r.stored
          /\ last_execution' = r.last
          /\ execution_queue' = [execution_queue EXCEPT ![idx] = done]
          /\ execution_history' = IF r.exc = "none" THEN Append(r.history, done)
                                                    ELSE r.history
          /\ pending_executions' = IF r.exc = "none" THEN pending_executions
                                                     ELSE Append(pending_executions, done)
    /\ tickPc' = "iter"
    /\ idx' = idx + 1
    /\ lastCall' = NoCall
    /\ UNCHANGED <<agents, running, now, tickOwner, current_time, loopPc>>
    /\ UNCHANGED <<verifierVars, frameworkVars>>

\* tick_exec whose except branch drops the entry without a word
tick_exec_swallow ==
    /\ tickPc = "exec"
    /\ LET execution == execution_queue[idx]
           r == execute_agent(execution.agent_id, execution.context)
           done == [execution EXCEPT !.status = "completed",
                                     !.result = r.result,
                                     !.completed_time = now]
       IN /\ verification_results' = r.stored
          /\ last_execution' = r.last
          /\ execution_queue' = [execution_queue EXCEPT ![idx] = done]
          /\ execution_history' = IF r.exc = "none" THEN Append(r.history, done)
                                                    ELSE r.history
    /\ tickPc' = "iter"
    /\ idx' = idx + 1
    /\ lastCall' = NoCall
    /\ UNCHANGED <<agents, running, now, tickOwner, current_time, pending_executions,
                   loopPc>>
    /\ UNCHANGED <<verifierVars, frameworkVars>>

\* tick_exec without the try/except of process_queue: the exception leaves the tick
tick_exec_abort ==
    /\ tickPc = "exec"
    /\ LET execution == execution_queue[idx]
           r == execute_agent(execution.agent_id, execution.context)
           done == [execution EXCEPT !.status = "completed",
                                     !.result = r.result,
                                     !.completed_time = now]
       IN /\ verification_results' = r.stored
          /\ last_execution' = r.last
          /\ IF r.exc = "none"
             THEN /\ execution_queue' = [execution_queue EXCEPT ![idx] = done]
                  /\ execution_history' = Append(r.history, done)
                  /\ tickPc' = "iter"
                  /\ idx' = idx + 1
                  /\ lastCall' = NoCall
                  /\ UNCHANGED <<running, tickOwner, current_time, pending_executions,
                                 loopPc>>
             ELSE /\ tickPc' = "idle"
                  /\ tickOwner' = "call"
                  /\ current_time' = NoTime
                  /\ pending_executions' = <<>>
                  /\ idx' = 0
                  /\ running' = IF tickOwner = "loop" THEN FALSE ELSE running
                  /\ loopPc' = IF tickOwner = "loop" THEN "off" ELSE loopPc
                  /\ lastCall' = Call(IF tickOwner = "loop" THEN "start"
                                                            ELSE "process_queue",
                                      IF tickOwner = "loop" THEN "ok" ELSE r.exc, r.invoked)
                  /\ UNCHANGED <<execution_queue, execution_history>>
    /\ UNCHANGED <<agents, now>>
    /\ UNCHANGED <<verifierVars, frameworkVars>>

\* the rest of the turn for a due entry: execute_agent, then the entry's
\* terminal status and its move to the history
tick_exec ==
    /\ tickPc = "exec"
    /\ LET execution == execution_queue[idx]
           r == execute_agent(execution.agent_id, execution.context)
           done == IF r.exc = "none"
                   THEN [execution EXCEPT !.status = "completed",
                                          !.result = r.result,
                                          !.completed_time = now]
                   ELSE [execution EXCEPT !.status = "failed", !.error = r.msg]
       IN /\ verification_results' = r.stored
          /\ last_execution' = r.last
          /\ execution_queue' = [execution_queue EXCEPT ![idx] = done]
          /\ execution_history' = Append(r.history, done)
    /\ tickPc' = "iter"
    /\ idx' = idx + 1
    /\ lastCall' = NoCall
    /\ UNCHANGED <<agents, running, now, tickOwner, current_time, pending_executions,
                   loopPc>>
    /\ UNCHANGED <<verifierVars, frameworkVars>>

\* tick_end without the assignment self.execution_queue = pending_executions
tick_end_keep ==
    /\ tickPc = "iter"
    /\ idx > Len(execution_queue)
    /\ tickPc' = "idle"
    /\ tickOwner' = "call"
    /\ current_time' = NoTime
    /\ pending_executions' = <<>>
    /\ idx' = 0
    /\ loopPc' = IF tickOwner = "loop" THEN "sleep" ELSE loopPc
    /\ lastCall' = IF tickOwner = "call" THEN Call("process_queue", "ok", FALSE)
                                         ELSE NoCall
    /\ UNCHANGED <<registryVars, last_execution, execution_queue, execution_history,
                   running, now>>
    /\ UNCHANGED <<verifierVars, frameworkVars>>

\* the end of the for loop: self.execution_queue = pending_executions; the
\* locals go out of scope
tick_end ==
    /\ tickPc = "iter"
    /\ idx > Len(execution_queue)
    /\ execution_queue' = pending_executions
    /\ tickPc' = "idle"
    /\ tickOwner' = "call"
    /\ current_time' = NoTime
    /\ pending_executions' = <<>>
    /\ idx' = 0
    /\ loopPc' = IF tickOwner = "loop" THEN "sleep" ELSE loopPc
    /\ lastCall' = IF tickOwner = "call" THEN Call("process_queue", "ok", FALSE)
                                         ELSE NoCall
    /\ UNCHANGED <<registryVars, last_execution, execution_history, running, now>>
    /\ UNCHANGED <<verifierVars, frameworkVars>>

(* ------------------------- a second caller thread --------------------- *)
\* ChronoOrchestrator.schedule_execution called by another thread while
\* process_queue is under way: the method takes no lock
schedule_execution_threaded(id, context, execution_time) ==
    /\ tickPc # "idle"
    /\ IF agents[id] = NoAgent
       THEN /\ lastCall' = Call("schedule_execution", "ValueError", FALSE)
            /\ UNCHANGED execution_queue
       ELSE /\ Records < MaxCalls
            /\ execution_queue' = Append(execution_queue,
                                         NewEntry(id, context, execution_time))
            /\ lastCall' = Call("schedule_execution", "ok", FALSE)
    /\ UNCHANGED <<registryVars, last_execution, execution_history, running, now,
                   tickVars, loopPc>>
    /\ UNCHANGED <<verifierVars, frameworkVars>>

\* the for loop of process_queue finds the list exhausted
tick_exhaust ==
    /\ tickPc = "iter"
    /\ idx > Len(execution_queue)
    /\ tickPc' = "assign"
    /\ lastCall' = NoCall
    /\ UNCHANGED <<registryVars, last_execution, execution_queue, execution_history,
                   running, now, tickOwner, current_time, pending_executions, idx,
                   loopPc>>
    /\ UNCHANGED <<verifierVars, frameworkVars>>

\* self.execution_queue = pending_executions, after the for loop
tick_assign ==
    /\ tickPc = "assign"
    /\ execution_queue' = pending_executions
    /\ tickPc' = "idle"
    /\ tickOwner' = "call"
    /\ current_time' = NoTime
    /\ pending_executions' = <<>>
    /\ idx' = 0
    /\ loopPc' = IF tickOwner = "loop" THEN "sleep" ELSE loopPc
    /\ lastCall' = IF tickOwner = "call" THEN Call("process_queue", "ok", FALSE)
                                         ELSE NoCall
    /\ UNCHANGED <<registryVars, last_execution, execution_history, running, now>>
    /\ UNCHANGED <<verifierVars, frameworkVars>>

(* ------------------------------ start/stop ----------------------------- *)
\* ChronoOrchestrator.start up to the while loop
start ==
    /\ loopPc = "off"
    /\ tickPc = "idle"
    /\ running' = TRUE
    /\ loopPc' = "check"
    /\ lastCall' = NoCall
    /\ UNCHANGED <<registryVars, last_execution, execution_queue, execution_history,
                   now, tickVars>>
    /\ UNCHANGED <<verifierVars, frameworkVars>>

\* a loop that goes on ticking whatever the flag
loop_check_forever ==
    /\ loopPc \in {"check", "sleep"}
    /\ tickPc = "idle"
    /\ BeginTick("loop")
    /\ loopPc' = "tick"
    /\ lastCall' = NoCall
    /\ UNCHANGED <<registryVars, last_execution, execution_queue, execution_history,
                   running, now>>
    /\ UNCHANGED <<verifierVars, frameworkVars>>

\* `while self.running:`, on entering the loop or when time.sleep(1) returns:
\* it enters process_queue, or leaves through `finally`
loop_check ==
    /\ loopPc \in {"check", "sleep"}
    /\ tickPc = "idle"
    /\ IF running
       THEN /\ BeginTick("loop")
            /\ loopPc' = "tick"
            /\ lastCall' = NoCall
            /\ UNCHANGED running
       ELSE /\ running' = FALSE
            /\ loopPc' = "off"
            /\ lastCall' = Call("start", "ok", FALSE)
            /\ UNCHANGED tickVars
    /\ UNCHANGED <<registryVars, last_execution, execution_queue, execution_history,
                   now>>
    /\ UNCHANGED <<verifierVars, frameworkVars>>

\* ChronoOrchestrator.stop, from any other thread
stop ==
    /\ running
    /\ running' = FALSE
    /\ lastCall' = Call("stop", "ok", FALSE)
    /\ UNCHANGED <<registryVars, last_execution, execution_queue, execution_history,
                   now, tickVars, loopPc>>
    /\ UNCHANGED <<verifierVars, frameworkVars>>

\* the wall clock advances
clock ==
    /\ now < MaxTime
    /\ now' = now + 1
    /\ lastCall' = NoCall
    /\ UNCHANGED <<registryVars, last_execution, execution_queue, execution_history,
                   running, tickVars, loopPc>>
    /\ UNCHANGED <<verifierVars, frameworkVars>>

(* ---------------------------- AgentVerifier ---------------------------- *)
\* a test context: the keys the agent looks for, and the value of "test_id"
TestIds == {"t1"}
TestContexts == {[keys |-> k, test_id |-> t] : k \in Contexts, t \in TestIds \cup {Absent}}

\* the test_contexts argument: None (not given) or a list
TestLists == UNION {[1 .. n -> TestContexts] : n \in 0 .. MaxTests}
TestArgs == {[given |-> FALSE, list |-> <<>>]} \cup {[given |-> TRUE, list |-> l] : l \in TestLists}

\* {"test_id": "default_test"}
default_test == [keys |-> {}, test_id |-> "default_test"]

\* the suite with no default: an empty list runs no test
OrDefault_empty(test_contexts) == test_contexts.list

\* `if not test_contexts: test_contexts = [{"test_id": "default_test"}]`
OrDefault(test_contexts) ==
    IF ~test_contexts.given \/ test_contexts.list = <<>>
    THEN <<default_test>>
    ELSE test_contexts.list

\* f"test_{len(results['execution_tests'])}"
test_n(n) ==
    CASE n = 0 -> "test_0"
      [] n = 1 -> "test_1"
      [] n = 2 -> "test_2"
      [] n = 3 -> "test_3"
      [] OTHER -> "test_4"

\* the for loop in which a test that succeeds sets passed again
RECURSIVE run_tests_last(_, _, _)
run_tests_last(agent, contexts, results) ==
    IF contexts = <<>>
    THEN results
    ELSE LET context == Head(contexts)
             test_id == IF context.test_id # Absent
                        THEN context.test_id
                        ELSE test_n(Cardinality(results.execution_tests))
             success == execute(agent, context.keys) = "returns"
             entry == [test_id |-> test_id, context |-> context, success |-> success]
         IN run_tests_last(agent, Tail(contexts),
                [results EXCEPT
                    !.execution_tests = {t \in @ : t.test_id # test_id} \cup {entry},
                    !.performance = IF success THEN @ \cup {test_id} ELSE @,
                    !.passed = success,
                    !.executes = @ + 1])

\* the for loop over the test contexts: execution_tests and performance are
\* dicts keyed by test id, executes counts the calls of agent.execute
RECURSIVE run_tests(_, _, _)
run_tests(agent, contexts, results) ==
    IF contexts = <<>>
    THEN results
    ELSE LET context == Head(contexts)
             test_id == IF context.test_id # Absent
                        THEN context.test_id
                        ELSE test_n(Cardinality(results.execution_tests))
             success == execute(agent, context.keys) = "returns"
             entry == [test_id |-> test_id, context |-> context, success |-> success]
         IN run_tests(agent, Tail(contexts),
                [results EXCEPT
                    !.execution_tests = {t \in @ : t.test_id # test_id} \cup {entry},
                    !.performance = IF success THEN @ \cup {test_id} ELSE @,
                    !.passed = IF success THEN @ ELSE FALSE,
                    !.executes = @ + 1])

\* a call of verify_agent, of the registry or of the verifier, and what it returned
Verified(op, id, test_contexts, outcome, executes, returned) ==
    [op |-> op, agent_id |-> id, test_contexts |-> test_contexts, outcome |-> outcome,
     executes |-> executes, returned |-> returned]

\* the suite's dict, from the state the for loop leaves
SuiteResults(r) ==
    [present |-> TRUE, basic_verification |-> r.basic_verification,
     execution_tests |-> r.execution_tests, performance |-> r.performance,
     passed |-> r.passed]

\* a direct call of AgentRegistry.verify_agent
registry_verify_agent(id) ==
    /\ LET v == verify_agent(agents, verification_results, id)
       IN /\ verification_results' = v.stored
          /\ lastCall' = Verified("AgentRegistry.verify_agent", id, <<>>,
                                  IF v.exc = "none" THEN "ok" ELSE v.exc, 0, v.results)
    /\ UNCHANGED <<agents, engineVars, verifierVars, frameworkVars>>

\* AgentVerifier.verify_agent that runs the tests whatever the registry found
verifier_verify_agent_eager(id, test_contexts) ==
    /\ LET v == verify_agent(agents, verification_results, id)
       IN IF v.exc # "none"
          THEN /\ lastCall' = Verified("AgentVerifier.verify_agent", id, test_contexts,
                                       v.exc, 0, v.results)
               /\ UNCHANGED <<verification_results, verifier_results>>
          ELSE LET r == run_tests(agents[id], OrDefault(test_contexts),
                                  [basic_verification |-> v.results,
                                   execution_tests |-> {}, performance |-> {},
                                   passed |-> v.results.passed, executes |-> 0])
               IN /\ verification_results' = v.stored
                  /\ verifier_results' = [verifier_results EXCEPT ![id] = SuiteResults(r)]
                  /\ lastCall' = Verified("AgentVerifier.verify_agent", id, test_contexts,
                                          "ok", r.executes, SuiteResults(r))
    /\ UNCHANGED <<agents, engineVars, frameworkVars>>

\* AgentVerifier.verify_agent: the registry's verification, then the tests
verifier_verify_agent(id, test_contexts) ==
    /\ LET v == verify_agent(agents, verification_results, id)
       IN IF v.exc # "none"
          THEN /\ lastCall' = Verified("AgentVerifier.verify_agent", id, test_contexts,
                                       v.exc, 0, v.results)
               /\ UNCHANGED <<verification_results, verifier_results>>
          ELSE IF ~v.results.passed
          THEN /\ verification_results' = v.stored
               /\ lastCall' = Verified("AgentVerifier.verify_agent", id, test_contexts,
                                       "ok", 0, v.results)
               /\ UNCHANGED verifier_results
          ELSE LET r == run_tests(agents[id], OrDefault(test_contexts),
                                  [basic_verification |-> v.results,
                                   execution_tests |-> {}, performance |-> {},
                                   passed |-> v.results.passed, executes |-> 0])
               IN /\ verification_results' = v.stored
                  /\ verifier_results' = [verifier_results EXCEPT ![id] = SuiteResults(r)]
                  /\ lastCall' = Verified("AgentVerifier.verify_agent", id, test_contexts,
                                          "ok", r.executes, SuiteResults(r))
    /\ UNCHANGED <<agents, engineVars, frameworkVars>>

(* ------------------- ChronoeffectorAI: stakes and quorum --------------- *)
\* a validator whose threshold rises with every tally it has made
validate_output_drifting(validator_id, agent_output, quality) ==
    output_hash(agent_output) * 10 >= (quality + 2 * Len(votes)) * 65535

\* quality_score = int(output_hash[:4], 16) / 65535, as a fraction
quality_score(prefix) == [num |-> prefix, den |-> ScoreDivisor]

\* quality_score >= expected_quality (quality is in tenths)
meets(score, quality) == score.num * 10 >= quality * score.den

\* a panel whose first validator passes every output
validate_hash_biased(validator_id, prefix, quality) ==
    validator_id = "val_0" \/ meets(quality_score(prefix), quality)

\* Validator.validate_output on an output whose hash starts with prefix
validate_hash(validator_id, prefix, quality) ==
    meets(quality_score(prefix), quality)

\* Validator.validate_output: quality_score = hash / 65535 >= expected_quality
\* (quality is in tenths)
validate_output(validator_id, agent_output, quality) ==
    validate_hash(validator_id, output_hash(agent_output), quality)

\* sum(votes)
sum(vs) == Cardinality({i \in DOMAIN vs : vs[i]})

\* a panel that accepts on half of the votes
consensus_on_half(vs, panel) == sum(vs) * 2 >= panel

\* sum(votes) > len(self.validators) / 2, for a panel of `panel` validators
consensus(vs, panel) == sum(vs) * 2 > panel

\* one tally: the agent and the output it was made for, the votes, the verdict
Tally(id, output, vs, panel) ==
    [agent_id |-> id, output |-> output, votes |-> vs, consensus |-> consensus(vs, panel)]

\* a call of the framework and the string it returned
Returned(op, returned) == [op |-> op, outcome |-> "ok", returned |-> returned]

\* ChronoeffectorAI.deploy_agent: AIAgent.activate stakes through
\* SolanaSmartContract.stake; the agent is stored active or not
deploy_agent(id, wallet_id, task_func, stake_amount) ==
    /\ IF ai_agents[id].present
       THEN UNCHANGED <<ai_agents, staked_funds>>
       ELSE LET staked == stake_amount >= min_stake
            IN /\ staked_funds' = IF staked
                                  THEN [staked_funds EXCEPT ![wallet_id] = stake_amount]
                                  ELSE staked_funds
               /\ ai_agents' = [ai_agents EXCEPT ![id] =
                                   [present |-> TRUE, wallet_id |-> wallet_id,
                                    task_func |-> task_func, active |-> staked]]
    /\ lastCall' = Returned("deploy_agent", Absent)
    /\ UNCHANGED <<registryVars, engineVars, verifierVars, votes>>

\* ChronoeffectorAI.unload_agent: AIAgent.deactivate withdraws the wallet's stake
ai_unload_agent(id) ==
    /\ IF ai_agents[id].present
       THEN /\ staked_funds' = [staked_funds EXCEPT ![ai_agents[id].wallet_id] = NoStake]
            /\ ai_agents' = [ai_agents EXCEPT ![id] = NoAiAgent]
       ELSE UNCHANGED <<ai_agents, staked_funds>>
    /\ lastCall' = Returned("unload_agent", Absent)
    /\ UNCHANGED <<registryVars, engineVars, verifierVars, votes>>

\* ChronoeffectorAI.execute_task: AIAgent.execute_task, the votes of the panel
\* and the verdict
execute_task(id, input_data) ==
    /\ IF ~ai_agents[id].present
       THEN /\ lastCall' = Returned("execute_task", MsgAgentNotFound)
            /\ UNCHANGED votes
       ELSE LET agent == ai_agents[id]
                output == IF ~agent.active THEN MsgNotActive
                                           ELSE sentiment_task(input_data)
                vs == [i \in DOMAIN validators |->
                          validate_output(validators[i], output, expected_quality)]
                tally == Tally(id, output, vs, Len(validators))
            IN /\ Len(votes) < MaxTasks
               /\ votes' = Append(votes, tally)
               /\ lastCall' = Returned("execute_task",
                                       IF tally.consensus THEN output ELSE MsgRejected)
    /\ UNCHANGED <<registryVars, engineVars, verifierVars, ai_agents, staked_funds>>

\* the verdict of a panel whose validators voted vs
tally_votes(vs) ==
    /\ Len(votes) < MaxTasks
    /\ votes' = Append(votes, Tally(Absent, Absent, vs, Len(vs)))
    /\ lastCall' = NoCall
    /\ UNCHANGED <<registryVars, engineVars, verifierVars, ai_agents, staked_funds>>

\* one vote of the panel on a hash prefix: the score, the votes, the verdict
Scored(prefix, quality, vs, panel) ==
    [agent_id |-> Absent, output |-> Absent, votes |-> vs,
     consensus |-> consensus(vs, panel), prefix |-> prefix,
     quality_score |-> quality_score(prefix), expected_quality |-> quality]

\* the panel of execute_task on an output whose hash starts with prefix, for
\* a required quality
panel_votes(prefix, quality) ==
    /\ votes = <<>>
    /\ LET vs == [i \in DOMAIN validators |->
                     validate_hash(validators[i], prefix, quality)]
       IN votes' = <<Scored(prefix, quality, vs, Len(validators))>>
    /\ lastCall' = NoCall
    /\ UNCHANGED <<registryVars, engineVars, verifierVars, ai_agents, staked_funds>>

(* ---------------------------- specification ---------------------------- *)
Times == 0 .. MaxTime
ContextArgs == Contexts \cup {NoContext}
TimeArgs == Times \cup {NoTime}

\* the engine driven call by call: the registry, the queue and single ticks
Next ==
    \/ \E o \in AgentObjects : register(o)
    \/ \E id \in AgentIds, context \in ContextArgs, execution_time \in TimeArgs :
            schedule_execution(id, context, execution_time)
    \/ \E id \in AgentIds, context \in ContextArgs : execute_agent_now(id, context)
    \/ process_queue
    \/ tick_iter
    \/ tick_exec
    \/ tick_end
    \/ clock

Spec == Init /\ [][Next]_vars

\* the engine under its polling loop: start() ticks until stop()
NextRun ==
    \/ \E o \in AgentObjects : register(o)
    \/ \E id \in AgentIds, context \in ContextArgs, execution_time \in TimeArgs :
            schedule_execution(id, context, execution_time)
    \/ start
    \/ loop_check
    \/ tick_iter
    \/ tick_exec
    \/ tick_end
    \/ stop
    \/ clock

SpecRun == Init /\ [][NextRun]_vars

\* the thread of start() keeps running: time.sleep returns, and every step of
\* process_queue, an agent's execute included, returns
SpecRunFair ==
    /\ SpecRun
    /\ WF_vars(loop_check)
    /\ WF_vars(tick_iter)
    /\ WF_vars(tick_exec)
    /\ WF_vars(tick_end)

\* the engine behind the HTTP endpoints, which can also unload an agent
NextApi ==
    \/ Next
    \/ \E id \in AgentIds : unload_agent(id)

SpecApi == Init /\ [][NextApi]_vars

\* the engine with a second thread that schedules while a tick is under way:
\* the end of the for loop and the assignment of the queue are two steps
NextThreads ==
    \/ \E o \in AgentObjects : register(o)
    \/ \E id \in AgentIds, context \in ContextArgs, execution_time \in TimeArgs :
            schedule_execution(id, context, execution_time)
    \/ \E id \in AgentIds, context \in ContextArgs, execution_time \in TimeArgs :
            schedule_execution_threaded(id, context, execution_time)
    \/ process_queue
    \/ tick_iter
    \/ tick_exec
    \/ tick_exhaust
    \/ tick_assign
    \/ clock

SpecThreads == Init /\ [][NextThreads]_vars

\* the verifier: its registry and its suite
NextVerifier ==
    \/ \E o \in AgentObjects : register(o)
    \/ \E id \in AgentIds : registry_verify_agent(id)
    \/ \E id \in AgentIds, test_contexts \in TestArgs :
            verifier_verify_agent(id, test_contexts)

SpecVerifier == Init /\ [][NextVerifier]_vars

\* the staked agents and the panel of three validators
NextFramework ==
    \/ \E id \in AiAgentIds, wallet_id \in WalletIds, task_func \in TaskFuncs,
          stake_amount \in StakeAmounts :
            deploy_agent(id, wallet_id, task_func, stake_amount)
    \/ \E id \in AiAgentIds : ai_unload_agent(id)
    \/ \E id \in AiAgentIds, input_data \in Inputs : execute_task(id, input_data)

SpecFramework == Init /\ [][NextFramework]_vars

\* the quorum rule over every list of votes of a panel of up to MaxPanel
VoteLists == UNION {[1 .. n -> BOOLEAN] : n \in 0 .. MaxPanel}

NextQuorum == \E vs \in VoteLists : tally_votes(vs)

SpecQuorum == Init /\ [][NextQuorum]_vars

\* the scoring function over every hash prefix and required quality, one
\* vote of the panel in a run
NextScore ==
    /\ votes = <<>>
    /\ \E prefix \in HashPrefixes, quality \in Thresholds :
            panel_votes(prefix, quality)

SpecScore == Init /\ [][NextScore]_vars

(* ------------------------------ properties ----------------------------- *)
Range(seq) == {seq[i] : i \in DOMAIN seq}
IsPrefix(s, t) == Len(s) <= Len(t) /\ \A i \in DOMAIN s : t[i] = s[i]
Last(seq) == seq[Len(seq)]

\* the registry's structural verification of object o passes
Passes(o) == IsChronoAgent(o) /\ validate(o) = "true"

\* C1: registering an agent whose agent_id is already registered fails with
\* ValueError (AlreadyExists) and leaves the registry as it was: the stored
\* agent is still the original object and its verification result is unchanged.
C1_DuplicateRegisterRejected ==
    [][lastCall'.op = "register" => \A o \in AgentObjects :
          (register(o) /\ IsChronoAgent(o) /\ agents[agent_id(o)] # NoAgent)
          => /\ lastCall' = Call("register", "ValueError", FALSE)
             /\ agents' = agents
             /\ verification_results' = verification_results]_vars

\* a second object with a registered id was turned down, the first is stored
C1_Witness ==
    /\ lastCall = Call("register", "ValueError", FALSE)
    /\ agents["a"] = 1
    /\ verification_results["a"].passed

\* C2: schedule_execution for an agent id that is not registered fails with
\* ValueError (NotFound) and leaves the pending queue and the history as they
\* were.
C2_ScheduleUnknownRejected ==
    [][lastCall'.op = "schedule_execution" =>
       \A id \in AgentIds, context \in ContextArgs, execution_time \in TimeArgs :
          (schedule_execution(id, context, execution_time) /\ agents[id] = NoAgent)
          => /\ lastCall' = Call("schedule_execution", "ValueError", FALSE)
             /\ execution_queue' = execution_queue
             /\ execution_history' = execution_history]_vars

\* an unknown id was turned down while an execution was pending
C2_Witness ==
    /\ lastCall = Call("schedule_execution", "ValueError", FALSE)
    /\ \E id \in AgentIds : agents[id] = NoAgent
    /\ execution_queue # <<>>

\* a tick has just run off the end of the queue
TickEnds == tickPc = "iter" /\ tickPc' = "idle"

\* C3: a queued execution whose agent raises from execute is, once a tick has
\* handled it, in the history with status "failed" and a non-empty error, and
\* is no longer pending.
C3_RaisingQueuedEntryFailed ==
    \A i \in DOMAIN execution_history :
        LET e == execution_history[i]
        IN (/\ IsQueueEntry(e)
            /\ agents[e.agent_id] # NoAgent
            /\ Passes(agents[e.agent_id])
            /\ execute(agents[e.agent_id], e.context) = "raises")
           => /\ e.status = "failed"
              /\ e.error \notin {Absent, ""}
              /\ tickPc = "idle" => e \notin Range(execution_queue)

\* C4: an execution scheduled for a time already past is only queued by
\* schedule_execution (status "scheduled", history untouched), and the tick
\* that follows makes it terminal and moves it to the history.
C4_PastDueWaitsForTick ==
    [][/\ (/\ tickPc = "idle"
           /\ Len(execution_queue') = Len(execution_queue) + 1
           /\ Last(execution_queue').scheduled_time < now)
          => /\ execution_history' = execution_history
             /\ IsPrefix(execution_queue, execution_queue')
             /\ Last(execution_queue').status = "scheduled"
       /\ TickEnds
          => \A i \in DOMAIN execution_queue :
                execution_queue[i].scheduled_time < current_time
                => /\ execution_queue[i].status \in Terminal
                   /\ execution_queue[i] \in Range(execution_history')
                   /\ execution_queue[i] \notin Range(execution_queue')]_vars

\* a tick has moved to the history an entry that was scheduled for a time
\* before the tick
C4_Witness ==
    /\ lastCall = Call("process_queue", "ok", FALSE)
    /\ \E i \in DOMAIN execution_history :
          /\ IsQueueEntry(execution_history[i])
          /\ execution_history[i].status = "completed"
          /\ execution_history[i].scheduled_time < execution_history[i].completed_time

\* the status steps a record may take
Allowed(s, t) ==
    \/ s = t
    \/ s = "scheduled" /\ t = "running"
    \/ s = "running" /\ t \in Terminal

StillScheduled(e) == e.status = "scheduled"

\* C5: the status of a record only moves scheduled -> running -> completed or
\* failed: a pending entry steps forward in place, the entries a tick keeps
\* pending are the ones still "scheduled", and a record of the history keeps
\* its terminal status.
C5_StatusMonotonic ==
    [][/\ \A i \in DOMAIN execution_history :
             /\ i \in DOMAIN execution_history'
             /\ execution_history'[i].status = execution_history[i].status
       /\ \A i \in DOMAIN execution_history' : execution_history'[i].status \in Terminal
       /\ IF TickEnds
          THEN /\ execution_queue' = SelectSeq(execution_queue, StillScheduled)
               /\ \A i \in DOMAIN execution_queue :
                     execution_queue[i].status \in Terminal \cup {"scheduled"}
          ELSE /\ \A i \in DOMAIN execution_queue :
                     /\ i \in DOMAIN execution_queue'
                     /\ Allowed(execution_queue[i].status, execution_queue'[i].status)
               /\ \A i \in DOMAIN execution_queue' \ DOMAIN execution_queue :
                     execution_queue'[i].status = "scheduled"]_vars

\* in the middle of a tick: one entry is terminal and logged, the next running
C5_Witness ==
    /\ tickPc = "exec"
    /\ idx = 2
    /\ execution_queue[1].status \in Terminal
    /\ execution_queue[1] \in Range(execution_history)
    /\ execution_queue[2].status = "running"

\* C6: between the operations of the engine the pending queue holds exactly
\* the records that are not terminal: every pending entry is "scheduled",
\* every record of the history is terminal, and no record is in both.
C6_QueueHoldsNonTerminal ==
    tickPc = "idle"
    => /\ \A i \in DOMAIN execution_queue : execution_queue[i].status = "scheduled"
       /\ \A i \in DOMAIN execution_history : execution_history[i].status \in Terminal
       /\ Range(execution_queue) \cap Range(execution_history) = {}

\* a tick has logged one entry and kept another pending
C6_Witness ==
    /\ lastCall = Call("process_queue", "ok", FALSE)
    /\ tickPc = "idle"
    /\ execution_queue # <<>>
    /\ \E i \in DOMAIN execution_history : IsQueueEntry(execution_history[i])

\* C7: the history is append-only: every step leaves the old history as a
\* prefix of the new one, so no record is removed, reordered or modified.
C7_HistoryAppendOnly ==
    [][IsPrefix(execution_history, execution_history')]_vars

\* the history holds a direct execution followed by what a tick appended
C7_Witness ==
    /\ Len(execution_history) >= 3
    /\ ~IsQueueEntry(execution_history[1])
    /\ IsQueueEntry(execution_history[3])
    /\ tickPc = "idle"

\* C8: execute_agent on an unregistered id (KeyError) or on a registered agent
\* whose verification does not pass (RuntimeError) raises to the caller
\* without calling agent.execute, without a new record in the history and
\* without changing any last_execution.
C8_EngineErrorSurfaces ==
    [][lastCall'.op = "execute_agent" => \A id \in AgentIds, context \in ContextArgs :
          (/\ agents[id] = NoAgent \/ validate(agents[id]) = "false"
           /\ execute_agent_now(id, context))
          => /\ lastCall' = Call("execute_agent",
                                 IF agents[id] = NoAgent THEN "KeyError"
                                                         ELSE "RuntimeError", FALSE)
             /\ execution_history' = execution_history
             /\ last_execution' = last_execution]_vars

\* an agent that fails verification was refused after an earlier execution
C8_Witness ==
    /\ lastCall = Call("execute_agent", "RuntimeError", FALSE)
    /\ agents["b"] = 3
    /\ ~verification_results["b"].passed
    /\ Len(execution_history) = 1

\* C9: when a registered agent that passes verification raises from execute,
\* execute_agent returns normally, appends exactly one record with status
\* "failed" whose result carries the error as a string, and leaves the engine
\* where it was, ready for the next operation.
C9_AgentFailureRecorded ==
    [][lastCall'.op = "execute_agent" => \A id \in AgentIds, context \in ContextArgs :
          (/\ agents[id] # NoAgent
           /\ Passes(agents[id])
           /\ execute(agents[id], OrEmpty(context)) = "raises"
           /\ execute_agent_now(id, context))
          => /\ lastCall' = Call("execute_agent", "ok", TRUE)
             /\ Len(execution_history') = Len(execution_history) + 1
             /\ IsPrefix(execution_history, execution_history')
             /\ Last(execution_history').status = "failed"
             /\ Last(execution_history').result = <<"error", MsgExecuteRaised>>
             /\ Last(execution_history').agent_id = id
             /\ tickPc' = "idle"
             /\ UNCHANGED <<execution_queue, running, loopPc>>]_vars

\* a direct execution failed and a later one went through
C9_Witness ==
    /\ Len(execution_history) = 2
    /\ execution_history[1].status = "failed"
    /\ ~IsQueueEntry(execution_history[1])
    /\ execution_history[2].status = "completed"
    /\ ~IsQueueEntry(execution_history[2])

\* C10: a failing agent never stops the polling loop: a tick ends only at the
\* end of the queue, with every due entry terminal and logged even when
\* another entry of the tick failed; start() then sleeps and ticks again; it
\* leaves only on seeing running false; and only stop() clears running.
C10_LoopSurvivesFailures ==
    [][/\ (tickPc # "idle" /\ tickPc' = "idle")
          => /\ tickPc = "iter"
             /\ idx > Len(execution_queue)
             /\ loopPc' = "sleep"
             /\ \A i \in DOMAIN execution_queue :
                   execution_queue[i].scheduled_time <= current_time
                   => /\ execution_queue[i].status \in Terminal
                      /\ execution_queue[i] \in Range(execution_history)
       /\ (loopPc \in {"check", "sleep"} /\ loopPc' # loopPc)
          => IF running THEN loopPc' = "tick" /\ tickPc' = "iter"
                        ELSE loopPc' = "off"
       /\ (loopPc # "off" /\ loopPc' = "off") => loopPc \in {"check", "sleep"} /\ ~running
       /\ (running /\ ~running')
          => /\ lastCall' = Call("stop", "ok", FALSE)
             /\ UNCHANGED <<registryVars, last_execution, execution_queue,
                            execution_history, now, tickVars, loopPc>>]_vars

\* the loop is asleep after a tick in which one entry failed verification and
\* a later one completed
C10_Witness ==
    /\ loopPc = "sleep"
    /\ running
    /\ \E i, j \in DOMAIN execution_history :
          /\ i < j
          /\ IsQueueEntry(execution_history[i])
          /\ execution_history[i].status = "failed"
          /\ execution_history[i].error = MsgFailedVerification
          /\ IsQueueEntry(execution_history[j])
          /\ execution_history[j].status = "completed"
          /\ execution_history[j].result = <<"value", "ok">>

\* C11: the panel accepts iff strictly more than half of its validators vote
\* pass: of three, two passes accept and one pass or none rejects; a panel of
\* even size does not accept on exactly half.
C11_QuorumStrictMajority ==
    \A i \in DOMAIN votes :
        LET t == votes[i]
            pass == Cardinality({k \in DOMAIN t.votes : t.votes[k]})
            fail == Cardinality({k \in DOMAIN t.votes : ~t.votes[k]})
        IN /\ t.consensus <=> pass > fail
           /\ (Len(t.votes) = 3 /\ pass = 2) => t.consensus
           /\ (Len(t.votes) = 3 /\ pass <= 1) => ~t.consensus
           /\ pass = fail => ~t.consensus

\* two passes of three were accepted and one pass of two was not
C11_Witness ==
    /\ Len(votes) = 2
    /\ votes[1].votes = <<TRUE, FALSE, TRUE>>
    /\ votes[1].consensus
    /\ votes[2].votes = <<FALSE, TRUE>>
    /\ ~votes[2].consensus

\* C12: the panel of three with threshold 0.7 is deterministic: two calls of
\* execute_task that tally the same output string get the same vote of every
\* validator and the same verdict, whatever agents are deployed, whatever is
\* staked and whatever was tallied before.
C12_QuorumDeterministic ==
    \A i, j \in DOMAIN votes :
        votes[i].output = votes[j].output
        => /\ Len(votes[i].votes) = 3
           /\ votes[i].votes = votes[j].votes
           /\ votes[i].consensus = votes[j].consensus

\* the same accepted output was tallied for two agents, the second after the
\* first one's wallet was emptied
C12_Witness ==
    /\ Len(votes) = 2
    /\ votes[1].output = votes[2].output
    /\ votes[1].agent_id # votes[2].agent_id
    /\ votes[2].consensus
    /\ lastCall.op = "execute_task"
    /\ lastCall.returned = votes[2].output
    /\ \A w \in WalletIds : staked_funds[w] = NoStake

\* C13: verify_agent of the registry is idempotent: called twice in a row for
\* a registered agent it returns the same results both times, and the stored
\* results after the second call are those after the first.
C13_VerifyIdempotent ==
    [][lastCall'.op = "AgentRegistry.verify_agent" => \A id \in AgentIds :
          (/\ registry_verify_agent(id)
           /\ lastCall.op = "AgentRegistry.verify_agent"
           /\ lastCall.agent_id = id
           /\ lastCall.outcome = "ok")
          => /\ lastCall'.outcome = "ok"
             /\ lastCall'.returned = lastCall.returned
             /\ verification_results' = verification_results
             /\ verification_results'[id] = lastCall'.returned]_vars

\* verify_agent has just returned, for a registered agent that passes while
\* another registered agent does not, the results it stored
C13_Witness ==
    /\ lastCall.op = "AgentRegistry.verify_agent"
    /\ lastCall.outcome = "ok"
    /\ lastCall.agent_id = "a"
    /\ lastCall.returned.passed
    /\ verification_results["a"] = lastCall.returned
    /\ agents["b"] = 3
    /\ ~verification_results["b"].passed

\* C14: the suite fails fast: for a registered agent whose structural
\* verification does not pass it returns the registry's results as they are,
\* calls execute not once and keeps no suite results, whatever the test contexts.
C14_SuiteFailsFast ==
    [][lastCall'.op = "AgentVerifier.verify_agent" =>
       \A id \in AgentIds, test_contexts \in TestArgs :
          (/\ verifier_verify_agent(id, test_contexts)
           /\ agents[id] # NoAgent
           /\ ~Passes(agents[id]))
          => /\ lastCall'.executes = 0
             /\ verifier_results' = verifier_results
             /\ lastCall'.outcome = "ok"
                => /\ lastCall'.returned = verification_results'[id]
                   /\ lastCall'.returned =
                         [is_valid_instance |-> TRUE, has_execute_method |-> TRUE,
                          self_validation |-> FALSE, passed |-> FALSE,
                          present |-> TRUE]]_vars

\* the suite was given two test contexts for an agent that fails validation
C14_Witness ==
    /\ lastCall.op = "AgentVerifier.verify_agent"
    /\ lastCall.outcome = "ok"
    /\ agents[lastCall.agent_id] = 3
    /\ Len(lastCall.test_contexts.list) = 2
    /\ lastCall.executes = 0
    /\ ~lastCall.returned.passed
    /\ ~verifier_results[lastCall.agent_id].present

\* C15: the suite's aggregate passed is (structural verification passed) and
\* (execute returned for every test context): one context whose execute
\* raises makes it false even if a later one succeeds.
C15_AggregatePassed ==
    [][lastCall'.op = "AgentVerifier.verify_agent" =>
       \A id \in AgentIds, test_contexts \in TestArgs :
          (verifier_verify_agent(id, test_contexts) /\ lastCall'.outcome = "ok")
          => LET run == IF test_contexts.given /\ test_contexts.list # <<>>
                        THEN test_contexts.list
                        ELSE <<default_test>>
             IN lastCall'.returned.passed
                <=> /\ Passes(agents[id])
                    /\ \A i \in DOMAIN run :
                          execute(agents[id], run[i].keys) = "returns"]_vars

\* the first of two tests raised and the second one, of the same test id,
\* succeeded: the only test entry left is a success and passed is false
C15_Witness ==
    /\ lastCall.op = "AgentVerifier.verify_agent"
    /\ lastCall.outcome = "ok"
    /\ lastCall.executes = 2
    /\ execute(agents[lastCall.agent_id], lastCall.test_contexts.list[1].keys) = "raises"
    /\ execute(agents[lastCall.agent_id], lastCall.test_contexts.list[2].keys) = "returns"
    /\ \A t \in lastCall.returned.execution_tests : t.success
    /\ ~lastCall.returned.passed
    /\ verifier_results[lastCall.agent_id] = lastCall.returned

\* C16: when the suite is called with no test contexts (None or an empty
\* list) for a registered agent whose structural verification passes, exactly
\* the default test context is run: execute is called exactly once and
\* exactly one test entry, that of "default_test", is recorded.
C16_DefaultTestContext ==
    [][lastCall'.op = "AgentVerifier.verify_agent" =>
       \A id \in AgentIds, test_contexts \in TestArgs :
          (/\ verifier_verify_agent(id, test_contexts)
           /\ ~test_contexts.given \/ test_contexts.list = <<>>
           /\ agents[id] # NoAgent
           /\ Passes(agents[id]))
          => /\ lastCall'.outcome = "ok"
             /\ lastCall'.executes = 1
             /\ Cardinality(lastCall'.returned.execution_tests) = 1
             /\ \A t \in lastCall'.returned.execution_tests :
                   t.test_id = "default_test" /\ t.context = default_test
             /\ verifier_results'[id] = lastCall'.returned]_vars

\* the suite was given an empty list and ran the default test, which failed
C16_Witness ==
    /\ lastCall.op = "AgentVerifier.verify_agent"
    /\ lastCall.test_contexts.given
    /\ lastCall.test_contexts.list = <<>>
    /\ lastCall.executes = 1
    /\ Cardinality(lastCall.returned.execution_tests) = 1
    /\ \E t \in lastCall.returned.execution_tests :
          t.test_id = "default_test" /\ ~t.success
    /\ ~lastCall.returned.passed

\* C16 as it is worded, for every registered agent: a call of the suite with no
\* test contexts that returns has called execute exactly once and recorded
\* exactly one test entry.
C16_DefaultTestContextAnyAgent ==
    [][lastCall'.op = "AgentVerifier.verify_agent" =>
       \A id \in AgentIds, test_contexts \in TestArgs :
          (/\ verifier_verify_agent(id, test_contexts)
           /\ ~test_contexts.given \/ test_contexts.list = <<>>
           /\ agents[id] # NoAgent
           /\ lastCall'.outcome = "ok")
          => /\ lastCall'.executes = 1
             /\ Cardinality(lastCall'.returned.execution_tests) = 1]_vars

\* C17: execution_id is unique: two successful calls of schedule_execution,
\* also for one agent within one second of the clock, return different ids,
\* so no two pending entries share an execution_id.
C17_ExecutionIdUnique ==
    \A i, j \in DOMAIN execution_queue :
        i # j => execution_queue[i].execution_id # execution_queue[j].execution_id

\* C18: within one tick the due entries are made terminal in ascending order
\* of scheduled_time, whatever the order they were scheduled in: the entries
\* the tick has handled so far are in non-decreasing scheduled_time order.
C18_TickInScheduledOrder ==
    tickPc # "idle"
    => \A i, j \in DOMAIN execution_queue :
          (/\ i < j
           /\ execution_queue[i].status \in Terminal
           /\ execution_queue[j].status \in Terminal)
          => execution_queue[i].scheduled_time <= execution_queue[j].scheduled_time

\* C19: once stop() has cleared the flag while start() is looping, start()
\* returns in the end; it returns between ticks, with no entry left
\* "running", and once it has seen the flag false it starts no further tick.
C19_StopEndsRun ==
    /\ (loopPc # "off" /\ ~running) ~> (loopPc = "off")
    /\ [][/\ (loopPc # "off" /\ loopPc' = "off")
             => /\ tickPc = "idle" /\ tickPc' = "idle"
                /\ lastCall' = Call("start", "ok", FALSE)
                /\ execution_queue' = execution_queue
                /\ \A i \in DOMAIN execution_queue :
                      execution_queue[i].status = "scheduled"
          /\ (loopPc # "off" /\ ~running /\ tickPc = "idle" /\ tickPc' # "idle")
             => FALSE]_vars

\* start() has returned after stop(), and its last tick had completed an entry
C19_Witness ==
    /\ lastCall = Call("start", "ok", FALSE)
    /\ loopPc = "off"
    /\ ~running
    /\ execution_queue = <<>>
    /\ \E i \in DOMAIN execution_history :
          /\ IsQueueEntry(execution_history[i])
          /\ execution_history[i].status = "completed"
          /\ execution_history[i].result = <<"value", "ok">>

\* C20: a queued execution whose agent, at the time of the tick, fails the
\* registry's verification or is no longer registered is caught inside the
\* tick: the tick goes on, the entry is appended to the history with status
\* "failed" and a non-empty error, and at the end of the tick it is no longer
\* pending.
C20_UnverifiedQueuedEntryFailed ==
    [][/\ (/\ tick_exec
           /\ \/ agents[execution_queue[idx].agent_id] = NoAgent
              \/ ~Passes(agents[execution_queue[idx].agent_id]))
          => LET done == execution_queue'[idx]
             IN /\ done.status = "failed"
                /\ done.error \notin {Absent, ""}
                /\ done.execution_id = execution_queue[idx].execution_id
                /\ execution_history' = Append(execution_history, done)
                /\ tickPc' = "iter"
                /\ last_execution' = last_execution
       /\ TickEnds
          => \A i \in DOMAIN execution_queue :
                execution_queue[i].status = "failed"
                => /\ execution_queue[i] \in Range(execution_history)
                   /\ execution_queue[i] \notin Range(execution_queue')
                   /\ Len(execution_queue') < Len(execution_queue)]_vars

\* a tick has ended that failed one entry on verification and one on an agent
\* unloaded after it was scheduled
C20_Witness ==
    /\ lastCall = Call("process_queue", "ok", FALSE)
    /\ execution_queue = <<>>
    /\ \E i, j \in DOMAIN execution_history :
          /\ execution_history[i].status = "failed"
          /\ execution_history[i].error = MsgFailedVerification
          /\ execution_history[j].status = "failed"
          /\ execution_history[j].error = MsgNotFound
          /\ agents[execution_history[j].agent_id] = NoAgent

\* the entries of the queue that are not due for the tick in progress
NotDue(queue) == SelectSeq(queue, LAMBDA e : e.scheduled_time > current_time)

\* C21: a tick leaves every entry that is not yet due untouched: no step of
\* the tick changes it or runs an agent for it, and the queue the tick leaves
\* is these entries, still "scheduled", in the order they had.
C21_NotDueUntouched ==
    [][/\ (tickPc # "idle" /\ tickPc' # "idle")
          => /\ Len(execution_queue') = Len(execution_queue)
             /\ \A i \in DOMAIN execution_queue :
                   execution_queue[i].scheduled_time > current_time
                   => /\ execution_queue'[i] = execution_queue[i]
                      /\ execution_queue[i].status = "scheduled"
                      /\ idx = i => /\ tickPc' = "iter"
                                    /\ execution_history' = execution_history
                                    /\ last_execution' = last_execution
                                    /\ verification_results' = verification_results
       /\ TickEnds
          => /\ execution_queue' = NotDue(execution_queue)
             /\ \A i \in DOMAIN execution_queue' :
                   execution_queue'[i].status = "scheduled"]_vars

\* a tick has ended that kept two entries that were not due, of different
\* contexts, in their order
C21_Witness ==
    /\ lastCall = Call("process_queue", "ok", FALSE)
    /\ Len(execution_queue) = 2
    /\ execution_queue[1].context # execution_queue[2].context
    /\ \A i \in DOMAIN execution_queue :
          /\ execution_queue[i].scheduled_time > now
          /\ execution_queue[i].status = "scheduled"

\* C22: every queued record that a tick has moved to the history, completed
\* or failed, carries a completed_time.
C22_TerminalHasCompletedTime ==
    \A i \in DOMAIN execution_history :
        IsQueueEntry(execution_history[i])
        => execution_history[i].completed_time # NoTime

\* C23: the ids with a stored verification result are the registered ids.
C23_VerifiedIffRegistered ==
    \A id \in AgentIds :
        agents[id] # NoAgent <=> verification_results[id].present

\* C24: between calls, the last_execution of a registered agent is None iff
\* its execute was never run, and otherwise refers to the last record of that
\* agent in the history.
C24_LastExecutionIsLatest ==
    tickPc = "idle"
    => \A id \in AgentIds :
          agents[id] # NoAgent
          => LET mine == {i \in DOMAIN execution_history :
                             execution_history[i].agent_id = id}
                 ran == {i \in mine : ~IsQueueEntry(execution_history[i])}
             IN /\ last_execution[agents[id]] = 0 <=> ran = {}
                /\ ran # {}
                   => /\ last_execution[agents[id]] \in mine
                      /\ \A i \in mine : i <= last_execution[agents[id]]

\* C25: every execution has exactly one record in the history: a tick adds
\* one record for each due entry it handles, and a direct execute_agent that
\* reaches the agent adds one.
C25_OneRecordPerExecution ==
    [][/\ tick_exec => Len(execution_history') = Len(execution_history) + 1
       /\ (lastCall'.op = "execute_agent" /\ lastCall'.invoked)
          => Len(execution_history') = Len(execution_history) + 1]_vars

\* C26: when schedule_execution is called by another thread while a tick is
\* under way, no accepted execution is lost: every entry that is in the queue
\* when the tick finishes is pending or in the history after it.
C26_ConcurrentScheduleKept ==
    [][(tickPc # "idle" /\ tickPc' = "idle")
       => \A i \in DOMAIN execution_queue :
             \/ execution_queue[i] \in Range(execution_queue')
             \/ execution_queue[i] \in Range(execution_history')]_vars

\* C27: there are no retries: a tick runs execute_agent only for an entry
\* that is still "scheduled", the entry is terminal right after, a terminal
\* entry is not pending once the tick has ended, and no step puts a terminal
\* record back among the pending ones.
C27_NoRetries ==
    [][/\ (tickPc = "iter" /\ tickPc' = "exec")
          => /\ execution_queue[idx].status = "scheduled"
             /\ execution_queue[idx] \notin Range(execution_history)
       /\ tick_exec
          => /\ execution_queue'[idx].status \in Terminal
             /\ pending_executions' = pending_executions
       /\ TickEnds
          => /\ \A i \in DOMAIN execution_queue :
                   execution_queue[i].status \in Terminal
                   => execution_queue[i] \notin Range(execution_queue')
             /\ \A i \in DOMAIN execution_queue' :
                   /\ execution_queue'[i].status = "scheduled"
                   /\ execution_queue'[i].error = Absent
                   /\ execution_queue'[i].result = NoResult
       /\ \A i \in DOMAIN execution_history :
             /\ i \in DOMAIN execution_history'
             /\ execution_history'[i].status = execution_history[i].status]_vars

\* a tick has ended without anything pending, after one entry failed on
\* verification and the agent of another one raised
C27_Witness ==
    /\ lastCall = Call("process_queue", "ok", FALSE)
    /\ execution_queue = <<>>
    /\ \E i, j, k \in DOMAIN execution_history :
          /\ IsQueueEntry(execution_history[i])
          /\ execution_history[i].status = "failed"
          /\ ~IsQueueEntry(execution_history[j])
          /\ execution_history[j].status = "failed"
          /\ k = j + 1
          /\ IsQueueEntry(execution_history[k])
          /\ execution_history[k].result = <<"error", MsgExecuteRaised>>

\* C28: the panel never splits: in every vote of the panel the three
\* validators cast the same vote, the number of pass votes is 0 or 3, and the
\* verdict is the vote of each single validator.
C28_PanelNeverSplits ==
    \A t \in DOMAIN votes :
        /\ Len(votes[t].votes) = Len(validators)
        /\ \A i, j \in DOMAIN votes[t].votes : votes[t].votes[i] = votes[t].votes[j]
        /\ sum(votes[t].votes) \in {0, Len(validators)}
        /\ \A i \in DOMAIN votes[t].votes : votes[t].consensus = votes[t].votes[i]

\* the panel has voted on a score just below 0.7, and nobody passed it
C28_Witness ==
    /\ Len(votes) = 1
    /\ votes[1].prefix = 45874
    /\ votes[1].expected_quality = expected_quality
    /\ sum(votes[1].votes) = 0
    /\ ~votes[1].consensus

\* C29: the quality score of every 16-bit hash prefix lies in [0,1): it is
\* never 1, and no output passes a required quality of 1.0.
C29_ScoreBelowOne ==
    \A t \in DOMAIN votes :
        /\ votes[t].quality_score.num >= 0
        /\ votes[t].quality_score.num < votes[t].quality_score.den
        /\ votes[t].expected_quality = 10 => sum(votes[t].votes) = 0

\* C30: after any deploy_agent and unload_agent calls, every deployed agent
\* that is active has a stake of at least min_stake recorded for its wallet.
C30_ActiveAgentIsStaked ==
    \A id \in AiAgentIds :
        (ai_agents[id].present /\ ai_agents[id].active)
        => staked_funds[ai_agents[id].wallet_id] >= min_stake

\* C31: a run of the suite on n >= 1 supplied test contexts reports exactly
\* n execution-test entries, and for each context an entry holds that context
\* with the outcome of its execute.
C31_OneEntryPerContext ==
    (/\ lastCall.op = "AgentVerifier.verify_agent"
     /\ lastCall.outcome = "ok"
     /\ lastCall.test_contexts.given
     /\ lastCall.test_contexts.list # <<>>
     /\ lastCall.executes > 0)
    => LET contexts == lastCall.test_contexts.list
           tests == lastCall.returned.execution_tests
       IN /\ lastCall.executes = Len(contexts)
          /\ Cardinality(tests) = Len(contexts)
          /\ \A i \in DOMAIN contexts :
                \E t \in tests :
                    /\ t.context = contexts[i]
                    /\ t.success = (execute(agents[lastCall.agent_id],
                                            contexts[i].keys) = "returns")

====
